---- MODULE Spec2Model ----
(***************************************************************************)
(* Network_Simulation.py: a script that drives the NEURON engine.  It      *)
(* injects a current clamp into cells built from the "Mycell" template,    *)
(* wires them into rings with NetCon/ExpSyn (delay 10 ms, weight 1),       *)
(* records the soma voltage and calls h.run() once per recorded cell.      *)
(*                                                                         *)
(* Time is counted in integration ticks; TicksPerMs ticks make one ms.     *)
(* Currents are counted in units of 0.1 nA (the sweep step of In[6]).      *)
(* The membrane dynamics of a Mycell are abstracted to the phases of an    *)
(* action potential: rest, rise, spike (above threshold), refractory.      *)
(***************************************************************************)
EXTENDS Integers, Sequences, FiniteSets, TLC

\* ---------------------------------------------------------------- bounds
TicksPerMs == 2      \* integration ticks per millisecond
MaxLatency == 2      \* longest response latency of a cell, in ticks
SpikeWidth == 2      \* ticks the soma stays above threshold in one spike
RefrTicks == 2       \* ticks of after-hyperpolarisation
MaxAnyDelay == 2     \* longest NetCon delay (ms) of the arbitrary networks
MaxStimDelay == 1    \* longest stimulus delay (ms) of the arbitrary networks
MaxStimDur == 2      \* longest stimulus duration (ms) of the arbitrary networks
AnyTstop == 6        \* stop time (ms) of a run on an arbitrary network

\* ------------------------------------------------------ program constants
Cell1 == 3                \* the single cell of In[2]; cells[k] is cell k
AllCells == 0..Cell1
step == 1                 \* In[6]: step = 0.1 nA
num_steps == 8            \* In[6]
StimDelay == 5            \* attach_current_clamp(cell, 5, 1, amp)
StimDur == 1
StimAmp == 6              \* 0.6 nA
NcDelay == 10             \* nc.delay = 10
NcWeight == 1             \* nc.weight[0] = 1
TstopShort == 25          \* simulate(25)
TstopLong == 150          \* simulate(150)
TstopSpikes == 100        \* simulate(tstop=100)

\* ------------------------------------------------------- the Mycell model
Vrest == -65              \* leak reversal / initial potential (mV)
Vsub == -55               \* depolarised below threshold
Vpeak == 40               \* the peak of an action potential
Vahp == -75               \* after-hyperpolarisation
Threshold == 10           \* the NetCon source threshold (mV)
Rheobase == 6             \* least clamp amplitude (0.1 nA) that evokes a spike
SynThreshold == 1         \* least synaptic weight that evokes a spike

VARIABLES
  pc,          \* the notebook cell the script is in
  i,           \* the loop index of that cell
  N,           \* len(cells)
  stims,       \* the IClamp objects alive
  ncs,         \* the NetCon objects alive: id -> [src, tgt, weight, delay]
  rec,         \* the cells whose soma voltage soma_v_vec records
  nclist,      \* the NetCons whose spikes t_vec/id_vec record (In[12])
  soma_v_vec, t_vec, id_vec,
  engine,      \* "Idle" or "Running"
  t,           \* h.t, in ticks
  tstop,       \* h.tstop, in ms
  ph, cnt, v,  \* per cell: phase, ticks left in the phase, soma voltage
  istim,       \* per cell: clamp current at time t
  syn,         \* per cell: synaptic weight delivered at time t
  queue,       \* the scheduled deliveries, in scheduling order
  lat,         \* response latencies of the template: [stim, syn] in ticks
  runs,        \* history: number of runs started
  spikes,      \* history: threshold crossings detected in this run
  delivered,   \* history: deliveries made in this run
  dropped,     \* history: deliveries the last stdinit() discarded
  trace,       \* history: per cell, the voltage at every tick of this run
  prev,        \* history: trace of the previous run
  cfg,         \* history: configuration of this run
  prevcfg      \* history: configuration of the previous run

vars == <<pc, i, N, stims, ncs, rec, nclist, soma_v_vec, t_vec, id_vec,
          engine, t, tstop, ph, cnt, v, istim, syn, queue, lat, runs,
          spikes, delivered, dropped, trace, prev, cfg, prevcfg>>

script == <<pc, i>>
topology == <<N, ncs>>
recording == <<rec, nclist>>

Ticks(ms) == ms * TicksPerMs

\* --------------------------------------------------------------- stimulus
attach_current_clamp(cell, delay, dur, amp) ==
  [cell |-> cell, delay |-> delay, dur |-> dur, amp |-> amp]

\* a clamp that is still on at the end of its interval
current_at_closed(s, tt) ==
  IF Ticks(s.delay) <= tt /\ tt <= Ticks(s.delay) + Ticks(s.dur) THEN s.amp ELSE 0

\* IClamp: the current of one clamp at time tt (ticks)
current_at(s, tt) ==
  IF Ticks(s.delay) <= tt /\ tt < Ticks(s.delay) + Ticks(s.dur) THEN s.amp ELSE 0

RECURSIVE SumCurrent(_, _)
SumCurrent(S, tt) ==
  IF S = {} THEN 0
  ELSE LET s == CHOOSE x \in S : TRUE
       IN current_at(s, tt) + SumCurrent(S \ {s}, tt)

\* a clamp that reaches every cell, whichever cell it was attached to
InjectedAll(S, c, tt) == SumCurrent(S, tt)

\* the clamp current into cell c at time tt: the clamps on one cell add up
Injected(S, c, tt) == SumCurrent({s \in S : s.cell = c}, tt)

\* ------------------------------------------------------------ connections
\* a NetCon whose delay is one ms short
NetConEarly(src, tgt) ==
  [src |-> src, tgt |-> tgt, weight |-> NcWeight, delay |-> NcDelay - 1]

NetCon(src, tgt) == [src |-> src, tgt |-> tgt, weight |-> NcWeight, delay |-> NcDelay]

Unconnected == << >>
\* rings whose last connection, back to cells[0], is missing
Ring2Open == <<[src |-> 0, tgt |-> 1, weight |-> NcWeight, delay |-> NcDelay]>>
Ring3Open == <<[src |-> 0, tgt |-> 1, weight |-> NcWeight, delay |-> NcDelay],
               [src |-> 1, tgt |-> 2, weight |-> NcWeight, delay |-> NcDelay]>>

Ring2 == <<NetCon(0, 1), NetCon(1, 0)>>
Ring3 == <<NetCon(0, 1), NetCon(1, 2), NetCon(2, 0)>>

\* the delivery a NetCon schedules when its source crosses threshold at tt
on_source_spike(id, tt) ==
  [nc |-> id, sent |-> tt, at |-> tt + Ticks(ncs[id].delay), run |-> runs]

\* the deliveries scheduled at tt by the NetCons whose source is in X
RECURSIVE Schedule(_, _, _)
Schedule(id, X, tt) ==
  IF id > Len(ncs) THEN << >>
  ELSE (IF ncs[id].src \in X THEN <<on_source_spike(id, tt)>> ELSE << >>)
       \o Schedule(id + 1, X, tt)

\* a delivery made one tick late
IsDueLate(e, tt) == e.at < tt

IsDue(e, tt) == e.at <= tt

RECURSIVE SumWeight(_, _)
SumWeight(es, c) ==
  IF es = << >> THEN 0
  ELSE (IF ncs[Head(es).nc].tgt = c THEN ncs[Head(es).nc].weight ELSE 0)
       + SumWeight(Tail(es), c)

\* ------------------------------------------------------------------- cell
\* the latency with which the input of this tick makes a resting cell spike
\* (0: the input is below threshold)
Drive(c) ==
  IF syn[c] >= SynThreshold THEN lat.syn
  ELSE IF istim[c] >= Rheobase THEN lat.stim
  ELSE 0

\* one integration tick of a cell: its new [ph, cnt, v]
StepCell(c) ==
  CASE ph[c] = "rest" ->
         IF Drive(c) = 1 THEN [ph |-> "spike", cnt |-> SpikeWidth, v |-> Vpeak]
         ELSE IF Drive(c) > 1 THEN [ph |-> "rise", cnt |-> Drive(c) - 1, v |-> Vsub]
         ELSE IF istim[c] > 0 \/ syn[c] > 0 THEN [ph |-> "rest", cnt |-> 0, v |-> Vsub]
         ELSE [ph |-> "rest", cnt |-> 0, v |-> Vrest]
    [] ph[c] = "rise" ->
         IF cnt[c] = 1 THEN [ph |-> "spike", cnt |-> SpikeWidth, v |-> Vpeak]
         ELSE [ph |-> "rise", cnt |-> cnt[c] - 1, v |-> Vsub]
    [] ph[c] = "spike" ->
         IF cnt[c] = 1 THEN [ph |-> "refr", cnt |-> RefrTicks, v |-> Vahp]
         ELSE [ph |-> "spike", cnt |-> cnt[c] - 1, v |-> Vpeak]
    [] OTHER ->
         IF cnt[c] = 1 THEN [ph |-> "rest", cnt |-> 0, v |-> Vrest]
         ELSE [ph |-> "refr", cnt |-> cnt[c] - 1, v |-> Vahp]

\* level-triggered detection: fires on every tick above threshold
crossed_level(vold, vnew) == vnew >= Threshold

\* NetCon threshold detection: a positive-going crossing between two ticks
crossed_threshold(vold, vnew) == vold < Threshold /\ vnew >= Threshold

\* ----------------------------------------------------------------- engine
Config == [stims |-> stims', ncs |-> ncs', N |-> N', tstop |-> tstop']

\* a run that restarts the clock but keeps the cells and the queue as they are
StdinitStale ==
  /\ engine' = "Running"
  /\ t' = 0
  /\ UNCHANGED <<ph, cnt, v, syn, queue, lat>>
  /\ istim' = [c \in AllCells |-> Injected(stims', c, 0)]
  /\ soma_v_vec' = IF rec' = {} THEN << >> ELSE <<v'[CHOOSE c \in rec' : TRUE]>>
  /\ t_vec' = IF nclist' = {} THEN <<0>> ELSE << >>
  /\ id_vec' = << >>
  /\ runs' = runs + 1
  /\ spikes' = {}
  /\ delivered' = << >>
  /\ dropped' = 0
  /\ trace' = [c \in AllCells |-> <<v'[c]>>]
  /\ prev' = trace
  /\ cfg' = Config
  /\ prevcfg' = cfg

\* h.run() begins with stdinit(): time 0, every cell at rest, no event queued
Stdinit ==
  /\ engine' = "Running"
  /\ t' = 0
  /\ ph' = [c \in AllCells |-> "rest"]
  /\ cnt' = [c \in AllCells |-> 0]
  /\ v' = [c \in AllCells |-> Vrest]
  /\ syn' = [c \in AllCells |-> 0]
  /\ queue' = << >>
  /\ istim' = [c \in AllCells |-> Injected(stims', c, 0)]
  /\ soma_v_vec' = IF rec' = {} THEN << >> ELSE <<v'[CHOOSE c \in rec' : TRUE]>>
  /\ t_vec' = IF nclist' = {} THEN <<0>> ELSE << >>
  /\ id_vec' = << >>
  /\ runs' = runs + 1
  /\ spikes' = {}
  /\ delivered' = << >>
  /\ dropped' = Len(queue)
  /\ trace' = [c \in AllCells |-> <<v'[c]>>]
  /\ prev' = trace
  /\ cfg' = Config
  /\ prevcfg' = cfg
  /\ UNCHANGED lat

simulate(T) ==
  /\ tstop' = T
  /\ Stdinit

\* a loop that makes one step too many
ContinuePast == t <= Ticks(tstop)

\* the loop condition of h.run(): while (t < tstop)
Continue == t < Ticks(tstop)

\* one fadvance() of the run
fadvance ==
  /\ engine = "Running"
  /\ Continue
  /\ LET nxt == [c \in AllCells |-> StepCell(c)]
         X == {c \in AllCells : crossed_threshold(v[c], nxt[c].v)}
         new == Schedule(1, X, t + 1)
         all == queue \o new
         due == SelectSeq(all, LAMBDA e : IsDue(e, t + 1))
     IN /\ ph' = [c \in AllCells |-> nxt[c].ph]
        /\ cnt' = [c \in AllCells |-> nxt[c].cnt]
        /\ v' = [c \in AllCells |-> nxt[c].v]
        /\ queue' = SelectSeq(all, LAMBDA e : ~IsDue(e, t + 1))
        /\ syn' = [c \in AllCells |-> SumWeight(due, c)]
        /\ delivered' = delivered \o [k \in 1..Len(due) |->
                          [nc |-> due[k].nc, sent |-> due[k].sent, at |-> due[k].at,
                           run |-> due[k].run, when |-> t + 1]]
        /\ spikes' = spikes \cup {[cell |-> c, time |-> t + 1] : c \in X}
        /\ t_vec' = IF nclist = {} THEN Append(t_vec, t + 1)
                    ELSE t_vec \o [k \in 1..Len(new) |-> new[k].sent]
        /\ id_vec' = IF nclist = {} THEN id_vec
                     ELSE id_vec \o [k \in 1..Len(new) |-> new[k].nc - 1]
  /\ t' = t + 1
  /\ istim' = [c \in AllCells |-> Injected(stims, c, t + 1)]
  /\ soma_v_vec' = IF rec = {} THEN soma_v_vec
                   ELSE Append(soma_v_vec, v'[CHOOSE c \in rec : TRUE])
  /\ trace' = [c \in AllCells |-> Append(trace[c], v'[c])]
  /\ UNCHANGED <<script, topology, recording, stims, engine, tstop, lat, runs,
                 dropped, prev, cfg, prevcfg>>

\* h.run() returns: the loop body of the script ends, the next one may begin
run_returns ==
  /\ engine = "Running"
  /\ ~Continue
  /\ engine' = "Idle"
  /\ i' = i + 1
  /\ pc' = IF pc = "In12" THEN "done" ELSE pc
  /\ UNCHANGED <<topology, recording, stims, soma_v_vec, t_vec, id_vec, t, tstop,
                 ph, cnt, v, istim, syn, queue, lat, runs, spikes, delivered,
                 dropped, trace, prev, cfg, prevcfg>>

\* ----------------------------------------------------------------- script
\* In[6]: the k-th amplitude of numpy.linspace(step, step*num_steps, num_steps)
linspace(k) == step + ((k - 1) * (step * num_steps - step)) \div (num_steps - 1)

In6_Iter ==
  /\ pc = "In6" /\ engine = "Idle" /\ i <= num_steps
  /\ stims' = {attach_current_clamp(Cell1, StimDelay, StimDur, linspace(i))}
  /\ rec' = {Cell1}
  /\ UNCHANGED <<script, topology, nclist>>
  /\ simulate(TstopShort)

\* In[7] and the head of In[8]: two unconnected cells, cells[0] stimulated
In8_Setup ==
  /\ pc = "In6" /\ engine = "Idle" /\ i > num_steps
  /\ N' = 2
  /\ stims' = {attach_current_clamp(0, StimDelay, StimDur, StimAmp)}
  /\ pc' = "In8" /\ i' = 0
  /\ UNCHANGED <<ncs, recording, soma_v_vec, t_vec, id_vec, engine, t, tstop,
                 ph, cnt, v, istim, syn, queue, lat, runs, spikes, delivered,
                 dropped, trace, prev, cfg, prevcfg>>

In8_Iter ==
  /\ pc = "In8" /\ engine = "Idle" /\ i < N
  /\ rec' = {i}
  /\ UNCHANGED <<script, topology, stims, nclist>>
  /\ simulate(TstopShort)

\* In[9] and the head of In[10]: the 2-cell ring, cells[0] stimulated
In10_Setup ==
  /\ pc = "In8" /\ engine = "Idle" /\ i >= N
  /\ ncs' = Ring2
  /\ stims' = {attach_current_clamp(0, StimDelay, StimDur, StimAmp)}
  /\ pc' = "In10" /\ i' = 0
  /\ UNCHANGED <<N, recording, soma_v_vec, t_vec, id_vec, engine, t, tstop,
                 ph, cnt, v, istim, syn, queue, lat, runs, spikes, delivered,
                 dropped, trace, prev, cfg, prevcfg>>

In10_Iter ==
  /\ pc = "In10" /\ engine = "Idle" /\ i < N
  /\ rec' = {i}
  /\ UNCHANGED <<script, topology, stims, nclist>>
  /\ simulate(TstopLong)

\* the head of In[11]: three new cells, cells[0] stimulated, the 3-cell ring
In11_Setup ==
  /\ pc = "In10" /\ engine = "Idle" /\ i >= N
  /\ N' = 3
  /\ stims' = {attach_current_clamp(0, StimDelay, StimDur, StimAmp)}
  /\ ncs' = Ring3
  /\ pc' = "In11" /\ i' = 0
  /\ UNCHANGED <<recording, soma_v_vec, t_vec, id_vec, engine, t, tstop,
                 ph, cnt, v, istim, syn, queue, lat, runs, spikes, delivered,
                 dropped, trace, prev, cfg, prevcfg>>

In11_Iter ==
  /\ pc = "In11" /\ engine = "Idle" /\ i < N
  /\ rec' = {i}
  /\ UNCHANGED <<script, topology, stims, nclist>>
  /\ simulate(TstopLong)

\* In[12]: record the spikes of nc1, nc2, nc3 and run once more
In12_Run ==
  /\ pc = "In11" /\ engine = "Idle" /\ i >= N
  /\ nclist' = 1..Len(ncs)
  /\ pc' = "In12" /\ i' = 0
  /\ UNCHANGED <<topology, stims, rec>>
  /\ simulate(TstopSpikes)

\* ---------------------------------------------------------- specification
\* The response latencies a template may have.  A step of the run computes
\* the voltage of time t+1 from the currents of time t, so the soma crosses
\* threshold one tick after the input that evokes the spike at the earliest.
\* The template is the same for every cell and every run.
Latencies == [stim : 1..MaxLatency, syn : 1..MaxLatency]

Quiet ==
  /\ engine = "Idle" /\ t = 0 /\ tstop = 0
  /\ ph = [c \in AllCells |-> "rest"]
  /\ cnt = [c \in AllCells |-> 0]
  /\ v = [c \in AllCells |-> Vrest]
  /\ istim = [c \in AllCells |-> 0]
  /\ syn = [c \in AllCells |-> 0]
  /\ queue = << >>
  /\ soma_v_vec = << >> /\ t_vec = << >> /\ id_vec = << >>
  /\ rec = {} /\ nclist = {}
  /\ runs = 0 /\ spikes = {} /\ delivered = << >> /\ dropped = 0
  /\ trace = [c \in AllCells |-> << >>]
  /\ prev = [c \in AllCells |-> << >>]
  /\ cfg = [stims |-> {}, ncs |-> << >>, N |-> 0, tstop |-> 0]
  /\ prevcfg = [stims |-> {}, ncs |-> << >>, N |-> 0, tstop |-> 0]

\* the script after In[5]: cell1 exists, nothing is attached to it
Init ==
  /\ pc = "In6" /\ i = 1
  /\ N = 0
  /\ stims = {}
  /\ ncs = Unconnected
  /\ lat \in Latencies
  /\ Quiet

Next ==
  \/ In6_Iter
  \/ In8_Setup
  \/ In8_Iter
  \/ In10_Setup
  \/ In10_Iter
  \/ In11_Setup
  \/ In11_Iter
  \/ In12_Run
  \/ fadvance
  \/ run_returns

Spec == Init /\ [][Next]_vars

\* the run loop is never abandoned: every enabled step is eventually taken
FairSpec == Spec /\ WF_vars(Next)

\* ------------------------------------------- arbitrary directed networks
\* The engine on any directed network of cells[0], cells[1] (self-loops and
\* both directions included, delays of 1 ms and of MaxAnyDelay ms), with one
\* clamp of any delay, duration and amplitude on cells[0].
Pairs == <<[src |-> 0, tgt |-> 0], [src |-> 0, tgt |-> 1],
           [src |-> 1, tgt |-> 0], [src |-> 1, tgt |-> 1]>>

\* the NetCons of a wiring d: pair index -> delay in ms, 0 for no connection
RECURSIVE Wire(_, _)
Wire(d, k) ==
  IF k > Len(Pairs) THEN << >>
  ELSE (IF d[k] > 0
        THEN <<[src |-> Pairs[k].src, tgt |-> Pairs[k].tgt,
                weight |-> NcWeight, delay |-> d[k]]>>
        ELSE << >>) \o Wire(d, k + 1)

AnyInit ==
  /\ pc = "any" /\ i = 0
  /\ N = 2
  /\ \E d \in [1..Len(Pairs) -> {0, 1, MaxAnyDelay}] : ncs = Wire(d, 1)
  /\ \E dl \in {0, MaxStimDelay}, du \in 0..MaxStimDur, a \in {0, StimAmp} :
       stims = {attach_current_clamp(0, dl, du, a)}
  /\ \E l \in 1..MaxLatency : lat = [stim |-> l, syn |-> l]
  /\ Quiet

AnyRun ==
  /\ pc = "any" /\ engine = "Idle" /\ runs = 0
  /\ rec' = {0}
  /\ UNCHANGED <<script, topology, stims, nclist>>
  /\ simulate(AnyTstop)

NextAny ==
  \/ AnyRun
  \/ fadvance
  \/ run_returns

SpecAny == AnyInit /\ [][NextAny]_vars

\* ----------------------------------------------------------------- claims
SpikeTimes(c) == {s.time : s \in {x \in spikes : x.cell = c}}
Earliest(S) == CHOOSE x \in S : \A y \in S : x <= y

\* the crossings of cell c read off its voltage trace (sample k+1 is time k)
Crossings(c) ==
  {k \in 1..(Len(trace[c]) - 1) :
     trace[c][k] < Threshold /\ trace[c][k + 1] >= Threshold}

\* the ticks of cell c's trace that are above threshold
Above(c) == {k \in 1..Len(trace[c]) : trace[c][k] >= Threshold}

\* the run in progress (or just completed) was started on the present objects
Started ==
  /\ runs > 0
  /\ cfg = [stims |-> stims, ncs |-> ncs, N |-> N, tstop |-> tstop]

\* the time of cells[0]'s response to the clamp, and the time of one hop
T0 == Ticks(StimDelay) + lat.stim
Hop == Ticks(NcDelay) + lat.syn

Events == delivered \o [k \in 1..Len(queue) |->
            [nc |-> queue[k].nc, sent |-> queue[k].sent, at |-> queue[k].at,
             run |-> queue[k].run, when |-> -1]]

C2_OneDeliveryPerCrossing ==
  Started =>
    /\ \A id \in 1..Len(ncs) : \A k \in Crossings(ncs[id].src) :
         LET mine == {j \in 1..Len(Events) :
                        Events[j].nc = id /\ Events[j].sent = k}
             due == k + Ticks(ncs[id].delay)
         IN /\ Cardinality(mine) = 1
            /\ \A j \in mine :
                 /\ Events[j].at = due
                 /\ (j <= Len(delivered)) <=> (due <= t)
                 /\ j <= Len(delivered) => Events[j].when = due
    /\ \A j \in 1..Len(Events) :
         /\ Events[j].nc \in 1..Len(ncs)
         /\ Events[j].sent \in Crossings(ncs[Events[j].nc].src)

C2_Witness ==
  /\ pc = "any" /\ Started /\ engine = "Idle"
  /\ Len(delivered) >= 2
  /\ Len(queue) >= 1
  /\ \E j \in 1..Len(delivered) : ncs[delivered[j].nc].delay = MaxAnyDelay

\* C3: in the network of 2 unconnected cells, with cells[0] stimulated,
\* cells[1] stays at its resting voltage at every tick of the run: it gets no
\* clamp current, no synaptic input, and never crosses threshold.
C3_NoCrosstalk ==
  (pc = "In8" /\ Started)
  => /\ \A k \in 1..Len(trace[1]) : trace[1][k] = Vrest
     /\ rec = {1} => \A k \in 1..Len(soma_v_vec) : soma_v_vec[k] = Vrest
     /\ istim[1] = 0 /\ syn[1] = 0
     /\ SpikeTimes(1) = {}

C3_Witness ==
  /\ pc = "In8" /\ Started /\ engine = "Idle" /\ rec = {1}
  /\ Len(soma_v_vec) = Ticks(TstopShort) + 1
  /\ SpikeTimes(0) # {}

C5_SpikesOnce ==
  (pc = "In10" /\ Started) => Cardinality(SpikeTimes(0)) <= 1

\* C5 (amended): in the 2-cell ring cells[0] spikes once in response to the
\* stimulus, and then once more each time the spike has come back round the
\* ring: its spikes are exactly those at T0 + k * 2 * (10 ms + latency).
C5_SpikesOncePerRound ==
  (pc = "In10" /\ Started)
  => SpikeTimes(0) = {x \in 0..t : x >= T0 /\ (x - T0) % (2 * Hop) = 0}

C5_Witness ==
  /\ pc = "In10" /\ Started /\ engine = "Idle"
  /\ Cardinality(SpikeTimes(0)) >= 2

\* C6: the single cell with no connection, given one supra-threshold clamp
\* pulse, reports exactly one threshold crossing for the pulse; the ticks on
\* which the voltage stays above threshold do not report a second one.
C6_OneEdgePerPulse ==
  (pc = "In6" /\ Started /\ \E s \in stims : s.amp >= Rheobase)
  => /\ Cardinality(SpikeTimes(Cell1)) <= 1
     /\ Above(Cell1) # {} => Cardinality(SpikeTimes(Cell1)) = 1
     /\ SpikeTimes(Cell1) = Crossings(Cell1)
     /\ engine = "Idle" => Cardinality(SpikeTimes(Cell1)) = 1

C6_Witness ==
  /\ pc = "In6" /\ Started /\ engine = "Idle"
  /\ \E s \in stims : s.amp >= Rheobase
  /\ Cardinality(Above(Cell1)) >= 2
  /\ Cardinality(SpikeTimes(Cell1)) = 1

\* C7: a new run starts from time 0 with an empty event queue and every cell
\* at rest, nothing scheduled in an earlier run is queued or delivered in it,
\* and starting, advancing and ending a run leave the cells and the
\* connections (with delays and weights) as they were.
C7_RunResets ==
  [][ /\ runs' = runs + 1 =>
           /\ t' = 0 /\ queue' = << >> /\ delivered' = << >>
           /\ \A c \in AllCells :
                ph'[c] = "rest" /\ cnt'[c] = 0 /\ v'[c] = Vrest /\ syn'[c] = 0
      /\ \A k \in 1..Len(queue') : queue'[k].run = runs'
      /\ \A k \in 1..Len(delivered') : delivered'[k].run = runs'
      /\ (runs' = runs + 1 \/ engine = "Running") => UNCHANGED topology
    ]_vars

C7_Witness ==
  /\ pc = "In10" /\ runs > 1 /\ engine = "Running" /\ t = 0
  /\ dropped > 0 /\ queue = << >>
  /\ cfg = prevcfg /\ ncs = Ring2

C9_CurrentWindow ==
  runs > 0 =>
    \A c \in AllCells :
      LET on == {s \in stims : /\ s.cell = c
                               /\ s.delay * TicksPerMs <= t
                               /\ t < (s.delay + s.dur) * TicksPerMs}
      IN /\ on = {} => istim[c] = 0
         /\ \A s \in on : istim[c] = s.amp

C9_Witness ==
  /\ pc = "any" /\ engine = "Running"
  /\ istim[0] = StimAmp
  /\ \E s \in stims : s.delay = MaxStimDelay /\ s.dur = MaxStimDur
                      /\ t = (s.delay + s.dur) * TicksPerMs - 1

\* C10: every run terminates: the engine goes Idle -> Running -> Idle, time
\* starts at 0 and advances one tick at a time, and the run ends when time is
\* exactly the stop time, also when deliveries are still queued beyond it.
C10_Terminates ==
  /\ [](engine = "Running" => t <= Ticks(tstop))
  /\ [][ /\ (engine = "Idle" /\ engine' = "Running") => t' = 0
         /\ (engine = "Running" /\ engine' = "Running") => t' = t + 1
         /\ (engine = "Running" /\ engine' = "Idle") =>
               (t = Ticks(tstop) /\ t' = t) ]_vars
  /\ (engine = "Running") ~> (engine = "Idle" /\ t = Ticks(tstop))

C10_Witness ==
  /\ pc = "In11" /\ engine = "Idle" /\ Started
  /\ t = Ticks(TstopLong)
  /\ queue # << >>

====
